---- MODULE Spec2Model ----
(***************************************************************************)
(* Session store, role/permission resolver and access gate of the          *)
(* dashboard (UserContext.tsx = src/unnamed/part_000, ProtectedRoute =     *)
(* src/src/components/ui-custom/ConfirmationDialog.tsx lines 123-167).     *)
(*                                                                         *)
(* The React state of UserProvider is four cells (user, roles,             *)
(* permissions, loading).  fetchUserAndRolesAndPermissions is an async     *)
(* function: every await is a suspension point, so one invocation is a     *)
(* little process with a program counter, and several invocations can be   *)
(* in flight at once.  The auth provider and the database are the          *)
(* collaborators: the provider holds the session and pushes events, the    *)
(* database answers the two queries or reports an error.                   *)
(***************************************************************************)
EXTENDS Naturals, Integers, Sequences, FiniteSets, TLC

\* ------------------------------------------------------------------ bounds

\* how many times fetchUserAndRolesAndPermissions may be invoked in one run
MaxCalls == 3

\* ------------------------------------------------------------- value space

\* JavaScript null for the string-valued cells (user id, event's session user)
null == "null"

\* actor identifiers known to the auth provider
Actors == {"u1", "u2"}

\* roles: string[] | null   (useState, part_000 line 26)
NullRoles == [some |-> FALSE, val |-> <<>>]
SomeRoles(names) == [some |-> TRUE, val |-> names]

\* permissions: Set<string> | null   (useState, part_000 line 27)
NullPermissions == [some |-> FALSE, val |-> {}]
SomePermissions(paths) == [some |-> TRUE, val |-> paths]

\* the rows of table roles
RoleAdmin == [id |-> 1, role_name |-> "admin"]
RoleFiles == [id |-> 2, role_name |-> "files"]
\* a user_roles row whose joined roles object is null: roles?.role_name and
\* roles?.id are both undefined, which filter(Boolean) drops like "" and 0
RoleNull == [id |-> 0, role_name |-> ""]

\* the rows of table resource_permissions (role_id, resource_path, can_access)
resource_permissions ==
    { [role_id |-> 1, resource_path |-> "/income", can_access |-> TRUE],
      [role_id |-> 1, resource_path |-> "/settings", can_access |-> FALSE],
      [role_id |-> 2, resource_path |-> "/partner-documents", can_access |-> FALSE] }

\* the resourcePath props of the protected routes that matter here
Paths == {"/", "/income", "/settings", "/partner-documents"}

\* the user_roles rows one actor may have, joined with roles(id, role_name):
\* no membership, a role with an allowed grant, a role whose grants are all
\* refused beside a row whose role is not visible
Memberships == { <<>>, <<RoleAdmin>>, <<RoleFiles, RoleNull>> }

\* the contents of table user_roles the runs start from
Databases ==
    { [a \in Actors |-> IF a = "u1" THEN <<RoleAdmin>> ELSE <<>>],
      [a \in Actors |-> IF a = "u1" THEN <<RoleFiles, RoleNull>> ELSE <<RoleAdmin>>],
      [a \in Actors |-> IF a = "u1" THEN <<>> ELSE <<RoleFiles, RoleNull>>] }

VARIABLES
    session,        \* auth provider: id of the signed-in actor, or null
    user_roles,     \* database: actor id -> its user_roles rows joined with roles
    user,           \* React state: id of the user object, or null
    roles,          \* React state
    permissions,    \* React state
    loading,        \* React state
    calls,          \* the invocations of fetchUserAndRolesAndPermissions in flight
    nCalls,         \* how many invocations have been made
    lastReturn,     \* how the invocation that returned last ended
    lastEvent,      \* the last event the onAuthStateChange callback handled
    permsFor        \* the actor whose grants the permissions cell was computed from

sessionVars == <<session, user_roles, user, roles, permissions, loading, calls,
                 nCalls, lastReturn, lastEvent, permsFor>>

\* ------------------------------------- value space of the invoice workflow
\* (BoletaForm = src/unnamed/part_009 lines 1-750, src/src/lib/api/invoicingApi.ts)

\* how many requests of the invoice page may be awaiting a collaborator at
\* once, and how many line items the form may hold
MaxInFlight == 2
MaxItems == 2

\* document numbers are strings of characters: their length and their
\* surrounding white space matter
Doc7 == <<"1", "2", "3", "4", "5", "6", "7">>
DocAna == <<"1", "2", "3", "4", "5", "6", "7", "8">>
DocLuis == <<"8", "7", "6", "5", "4", "3", "2", "1">>
DocUnknown == <<"9", "9", "9", "9", "9", "9", "9", "9">>
Doc7Padded == <<"1", "2", "3", "4", "5", "6", "7", " ">>
DocNumbers == {<<>>, Doc7, DocAna, DocUnknown, Doc7Padded}

\* the rows of table socio_titulares: one member with an address on file
\* and one without any
socio_titulares ==
    { [id |-> 7, dni |-> DocAna, nombres |-> "Ana Ruiz", direccionDNI |-> "Jr. Lima 123"],
      [id |-> 9, dni |-> DocLuis, nombres |-> "Luis Paz", direccionDNI |-> ""] }

\* String.prototype.length of the other text values that occur
StrLen(s) ==
    CASE s = "" -> 0
      [] s = "1" -> 1
      [] s = "6" -> 1
      [] s = "Ana Ruiz" -> 8
      [] s = "Luis Paz" -> 8
      [] s = "Jr. Lima 123" -> 12

\* currentSocioId: number | null; the code itself maps id 0 to null
\* (clientData.id || null) and treats it as absent (!currentSocioId)
NullSocioId == 0

\* lastIssuedBoleta: LastIssuedBoleta | null
NullBoleta == [some |-> FALSE, id |-> 0, numero_completo |-> ""]
SomeBoleta(id, numero_completo) ==
    [some |-> TRUE, id |-> id, numero_completo |-> numero_completo]

\* the data object of the issuance responses the invoicing API may give
IssuedData ==
    { [id |-> 42, numero_completo |-> "B001-00042"],
      [id |-> 43, numero_completo |-> "B001-00043"] }

\* amounts and quantities are in hundredths: DEFAULT_ITEM_UNIT_VALUE = 250.00
COMPANY_ID == 1
BRANCH_ID == 1
DEFAULT_ITEM_UNIT_VALUE == 25000
DEFAULT_IGV_PERCENTAGE == 18

\* the line item of defaultValues.detalles and of the append button
DefaultItem ==
    [cantidad |-> 100,
     mto_valor_unitario |-> DEFAULT_ITEM_UNIT_VALUE,
     porcentaje_igv |-> DEFAULT_IGV_PERCENTAGE]

\* defaultValues: the fields of the form that the schema constrains and
\* the user can change
defaultValues ==
    [tipo_documento |-> "1",
     numero_documento |-> <<>>,
     razon_social |-> "",
     direccion |-> "",
     detalles |-> <<DefaultItem>>]

\* what fetchClientByDocument last returned or threw to a direct caller
NoLookup == [docNumber |-> <<>>, result |-> "none yet", id |-> NullSocioId, queried |-> FALSE]

VARIABLES
    form,               \* react-hook-form values
    isSubmitting,       \* React state
    isClientSearching,  \* React state
    isGeneratingPdf,    \* React state
    lastIssuedBoleta,   \* React state
    currentSocioId,     \* React state
    submits,            \* the invocations of onSubmit in flight
    downloads,          \* the invocations of handleDownloadPdf in flight
    searches,           \* the invocations of fetchClientByDocument in flight
    lastToasts,         \* the titles of the toasts of the last handler step
    lastLookup,         \* what fetchClientByDocument last handed to a direct caller
    lastSave,           \* the file the browser was made to save in the last step
    issuedFor,          \* history: the document number of the payload whose
                        \* issuance produced the invoice now held, or <<>>
    lastValidation      \* what the resolver said at the last handleSubmit

invoiceVars == <<form, isSubmitting, isClientSearching, isGeneratingPdf,
                 lastIssuedBoleta, currentSocioId, submits, downloads,
                 searches, lastToasts, lastLookup, lastSave, issuedFor,
                 lastValidation>>

\* ------------------------------------ the data hook and the Expenses page

\* how many requests of useSupabaseData may be in flight at once
MaxRequests == 2

\* the largest id the database hands out to an inserted expense
MaxId == 4

\* colaboradores.id
Colaboradores == {"c1", "c2"}

\* a text as the sequence of its characters
GA001 == <<"G", "A", "0", "0", "1">>
GA002 == <<"G", "A", "0", "0", "2">>

\* numero_gasto: string | null
NullNumero == <<>>

\* the rows of table gastos the runs start from
Gasto1 == [id |-> 1, numero_gasto |-> GA001, colaborador_id |-> "c1", date |-> 1]
Gasto2 == [id |-> 2, numero_gasto |-> GA002, colaborador_id |-> "c2", date |-> 2]
Gasto2Unnumbered == [id |-> 2, numero_gasto |-> NullNumero, colaborador_id |-> "c2", date |-> 2]
Tables == { {Gasto1, Gasto2}, {Gasto1, Gasto2Unnumbered} }

\* editingExpense: GastoType | null, dataToConfirm: ExpenseFormValues | null
NullExpense == [some |-> FALSE, id |-> 0, numero_gasto |-> NullNumero,
                colaborador_id |-> "", date |-> 0]
SomeExpense(r) == [some |-> TRUE, id |-> r.id, numero_gasto |-> r.numero_gasto,
                   colaborador_id |-> r.colaborador_id, date |-> r.date]
NullValues == [some |-> FALSE, numero_gasto |-> NullNumero, colaborador_id |-> ""]
SomeValues(numero, colaborador) ==
    [some |-> TRUE, numero_gasto |-> numero, colaborador_id |-> colaborador]

\* useSupabaseData({tableName: 'gastos', initialSort: {column: 'date',
\* ascending: false}}): initialFilters = {}
initialFilters == [colaborador_id |-> ""]
initialSort == [column |-> "date", ascending |-> FALSE]

VARIABLES
    gastos,                 \* table gastos of the database
    nextId,                 \* the id the database gives to the next inserted row
    expenseData,            \* useSupabaseData: data (useState<T[]>)
    hookLoading,            \* useSupabaseData: loading
    hookError,              \* useSupabaseData: error (message or "null")
    filters,                \* useSupabaseData: filters
    sort,                   \* useSupabaseData: sort
    fetches,                \* the invocations of fetchData in flight
    writes,                 \* the handlers awaiting addRecord/updateRecord/deleteRecord
    isDialogOpen,           \* Expenses: React state
    editingExpense,         \* Expenses: React state
    numero_gasto,           \* Expenses: the form's field numero_gasto
    isConfirmDialogOpen,    \* Expenses: React state
    dataToConfirm,          \* Expenses: React state
    isConfirmingSubmission, \* Expenses: React state
    sonner                  \* the toasts (kind, title) of the last step

dataVars == <<gastos, nextId, expenseData, hookLoading, hookError, filters, sort, fetches,
              writes, isDialogOpen, editingExpense, numero_gasto,
              isConfirmDialogOpen, dataToConfirm, isConfirmingSubmission, sonner>>

\* Expenses after its first render and the effect that calls fetchData,
\* over a database whose table gastos holds the given rows
DataInitOn(table) ==
    /\ gastos = table
    /\ nextId = 3
    /\ expenseData = <<>>
    /\ hookLoading = TRUE
    /\ hookError = "null"
    /\ filters = initialFilters
    /\ sort = initialSort
    /\ fetches = <<[filters |-> initialFilters, sort |-> initialSort]>>
    /\ writes = <<>>
    /\ isDialogOpen = FALSE
    /\ editingExpense = NullExpense
    /\ numero_gasto = NullNumero
    /\ isConfirmDialogOpen = FALSE
    /\ dataToConfirm = NullValues
    /\ isConfirmingSubmission = FALSE
    /\ sonner = <<>>

DataInit == DataInitOn({Gasto1, Gasto2})

vars == <<sessionVars, invoiceVars, dataVars>>

\* the state of BoletaForm after its first render
InvoiceInit ==
    /\ form = defaultValues
    /\ isSubmitting = FALSE
    /\ isClientSearching = FALSE
    /\ isGeneratingPdf = FALSE
    /\ lastIssuedBoleta = NullBoleta
    /\ currentSocioId = NullSocioId
    /\ submits = <<>>
    /\ downloads = <<>>
    /\ searches = <<>>
    /\ lastToasts = <<>>
    /\ lastLookup = NoLookup
    /\ lastSave = <<>>
    /\ issuedFor = <<>>
    /\ lastValidation = "none yet"

\* ------------------------------------------- the resolver's pure computations

\* userRolesData.map(item => item.roles?.role_name).filter(Boolean)
RoleNamesOf(rows) ==
    LET names == [k \in 1..Len(rows) |-> rows[k].role_name]
    IN  SelectSeq(names, LAMBDA n : n # "")

\* userRolesData.map(item => item.roles?.id).filter(Boolean)
RoleIdsOf(rows) ==
    LET ids == [k \in 1..Len(rows) |-> rows[k].id]
    IN  SelectSeq(ids, LAMBDA n : n # 0)

\* from('resource_permissions').select('resource_path')
\*   .in('role_id', roleIds).eq('can_access', true), then new Set(...)
GrantedPaths(roleIds) ==
    { g.resource_path : g \in { h \in resource_permissions :
          /\ \E k \in 1..Len(roleIds) : roleIds[k] = h.role_id
          /\ h.can_access } }

\* a resolver that stores the granted paths as fetched, without the root
WithRoot_NotAdded(paths) == paths

\* if (fetchedPermissions.size > 0) fetchedPermissions.add('/')
WithRoot(paths) == IF paths # {} THEN paths \cup {"/"} ELSE paths

\* the root path granted to every signed-in actor, roles or not
NoRolesPermissions_RootGranted == SomePermissions({"/"})

\* the permission set of the branch taken when the actor holds no role
NoRolesPermissions == SomePermissions({})

\* what the catch block leaves in the roles and permissions cells
CatchRoles == NullRoles

\* a catch block that leaves the permission set it found
CatchPermissions_Kept == permissions

CatchPermissions == NullPermissions

\* how the promise of one invocation settles when a fetch threw: the catch
\* block logs and does not rethrow, so the async function returns normally
SettledAfterCatch == "fulfilled"

\* ------------------------------------------------------------ the access gate

\* a gate that falls back to true when there is no permission set
isAuthorized_DefaultTrue(resourcePath) ==
    IF permissions.some THEN resourcePath \in permissions.val ELSE TRUE

\* const isAuthorized = permissions?.has(resourcePath) ?? false
isAuthorized(resourcePath) ==
    permissions.some /\ resourcePath \in permissions.val

\* what ProtectedRoute renders for a resourcePath
ProtectedRoute(resourcePath) ==
    IF loading THEN "Loading"
    ELSE IF user = null THEN "Redirect"
    ELSE IF ~isAuthorized(resourcePath) THEN "Denied"
    ELSE "Authorized"

\* ------------------------------------------ fetchUserAndRolesAndPermissions

\* lastReturn before any invocation has returned
NoReturn == [stage |-> "none", failed |-> FALSE, settled |-> "pending",
             authUser |-> null]

\* calls without its i-th element: the invocation is over
Without(i) == [k \in 1..(Len(calls) - 1) |-> IF k < i THEN calls[k] ELSE calls[k + 1]]

\* the record of an invocation that has just been made: setLoading(true) has
\* run and supabase.auth.getUser() is awaited; the request carries the access
\* token of the session the provider holds at that moment
\* (latestSignIn marks the invocation made for the latest sign-in)
NewCall(trigger, token) ==
    [pc |-> "getUser", token |-> token, authUser |-> null, roleIds |-> <<>>,
     latestSignIn |-> trigger = "SIGNED_IN"]

\* an invocation that returned normally (through finally): its promise fulfils
Returned(c) ==
    [stage |-> c.pc, failed |-> FALSE, settled |-> "fulfilled",
     authUser |-> c.authUser]

\* an invocation that went through the catch block and then finally
Caught(c) ==
    [stage |-> c.pc, failed |-> TRUE, settled |-> SettledAfterCatch,
     authUser |-> c.authUser]

\* the invocation calls[i] is over
Finish(i, how) ==
    /\ calls' = Without(i)
    /\ lastReturn' = how

\* a catch block that shows the spinner again, with no finally after it
CatchAndFinally_LoadingAgain(i) ==
    /\ roles' = CatchRoles
    /\ permissions' = CatchPermissions
    /\ permsFor' = null
    /\ loading' = TRUE
    /\ Finish(i, Caught(calls[i]))

\* the catch block followed by finally
CatchAndFinally(i) ==
    /\ roles' = CatchRoles
    /\ permissions' = CatchPermissions
    /\ permsFor' = null
    /\ loading' = FALSE
    /\ Finish(i, Caught(calls[i]))

\* the user the awaited getUser() call yields: the user of the token on
\* success, no user when the provider answers with an auth error
GetUserResult(token, outcome) == IF outcome = "ok" THEN token ELSE null

\* lines 35-39 and 103-107: getUser() has answered
GetUserDone(i, outcome) ==
    /\ calls[i].pc = "getUser"
    /\ UNCHANGED <<session, user_roles, lastEvent, nCalls>>
    /\ IF outcome = "throw"
       THEN /\ CatchAndFinally(i)
            /\ UNCHANGED user
       ELSE LET authUser == GetUserResult(calls[i].token, outcome) IN
            /\ user' = authUser
            /\ IF authUser # null
               THEN /\ calls' = [calls EXCEPT ![i].pc = "roles",
                                               ![i].authUser = authUser]
                    /\ UNCHANGED <<roles, permissions, permsFor, loading, lastReturn>>
               ELSE /\ roles' = NullRoles
                    /\ permissions' = NullPermissions
                    /\ permsFor' = null
                    /\ loading' = FALSE
                    /\ Finish(i, Returned(calls[i]))

\* lines 41-76 and 98-101: the user_roles query has answered
RolesDone(i, outcome) ==
    /\ calls[i].pc = "roles"
    /\ UNCHANGED <<session, user_roles, user, lastEvent, nCalls>>
    /\ IF outcome = "error"
       THEN CatchAndFinally(i)
       ELSE LET userRolesData == user_roles[calls[i].authUser]
                fetchedRoles == RoleNamesOf(userRolesData)
                roleIds == RoleIdsOf(userRolesData)
            IN  /\ roles' = SomeRoles(fetchedRoles)
                /\ IF Len(fetchedRoles) > 0
                   THEN IF Len(roleIds) = 0
                        THEN /\ permissions' = SomePermissions({})
                             /\ permsFor' = calls[i].authUser
                             /\ loading' = FALSE
                             /\ Finish(i, Returned(calls[i]))
                        ELSE /\ calls' = [calls EXCEPT ![i].pc = "perms",
                                                        ![i].roleIds = roleIds]
                             /\ UNCHANGED <<permissions, permsFor, loading, lastReturn>>
                   ELSE /\ permissions' = NoRolesPermissions
                        /\ permsFor' = calls[i].authUser
                        /\ loading' = FALSE
                        /\ Finish(i, Returned(calls[i]))

\* lines 78-96: the resource_permissions query has answered
PermsDone(i, outcome) ==
    /\ calls[i].pc = "perms"
    /\ UNCHANGED <<session, user_roles, user, lastEvent, nCalls>>
    /\ IF outcome = "error"
       THEN CatchAndFinally(i)
       ELSE /\ permissions' = SomePermissions(WithRoot(GrantedPaths(calls[i].roleIds)))
            /\ permsFor' = calls[i].authUser
            /\ loading' = FALSE
            /\ UNCHANGED roles
            /\ Finish(i, Returned(calls[i]))

\* lines 32-35: the synchronous head of an invocation, up to the first await.
\* The invocation made for a sign-in is marked as the latest one made for a
\* sign-in, and the mark is taken from the earlier ones.
StartFetch(trigger, token) ==
    /\ loading' = TRUE
    /\ nCalls' = nCalls + 1
    /\ calls' = IF trigger = "SIGNED_IN"
                THEN Append([k \in 1..Len(calls) |-> [calls[k] EXCEPT !.latestSignIn = FALSE]],
                            NewCall(trigger, token))
                ELSE Append(calls, NewCall(trigger, token))

\* --------------------------------------------- the onAuthStateChange callback

\* every SIGNED_IN taken for a revalidation, whoever signs in
IsRevalidation_AnySignIn(event, sessionUser) == event = "SIGNED_IN"

\* line 130: event === 'SIGNED_IN' && user?.id === session.user.id
IsRevalidation(event, sessionUser) ==
    event = "SIGNED_IN" /\ user = sessionUser

\* the access token the getUser() request of a fetch started by the callback
\* carries: the provider has installed the event's session before it notifies
TokenAtCall(sessionUser) == sessionUser

\* lines 123-150: the callback, for an event and the user of its session
\* (null when the event carries no session)
OnAuthStateChange(event, sessionUser) ==
    /\ lastEvent' = event
    /\ UNCHANGED lastReturn
    /\ IF sessionUser # null
       THEN IF IsRevalidation(event, sessionUser)
            THEN /\ user' = sessionUser
                 /\ loading' = FALSE
                 /\ UNCHANGED <<roles, permissions, permsFor, calls, nCalls>>
            ELSE /\ nCalls < MaxCalls
                 /\ user' = sessionUser
                 /\ StartFetch(event, TokenAtCall(sessionUser))
                 /\ UNCHANGED <<roles, permissions, permsFor>>
       ELSE /\ user' = null
            /\ roles' = NullRoles
            /\ permissions' = NullPermissions
            /\ permsFor' = null
            /\ loading' = FALSE
            /\ UNCHANGED <<calls, nCalls>>

\* ----------------------------------------------------------------- actions

Mounted == nCalls > 0

\* lines 118-120: the effect of the first render calls the resolver and
\* subscribes to the provider
Mount ==
    /\ ~Mounted
    /\ StartFetch("mount", session)
    /\ UNCHANGED <<session, user_roles, user, roles, permissions, lastEvent,
                   permsFor, lastReturn>>

\* the provider signs actor a in (a new sign-in, or the revalidation of the
\* session that is already held) and notifies SIGNED_IN
SignedIn(a) ==
    /\ Mounted
    /\ session' = a
    /\ OnAuthStateChange("SIGNED_IN", a)
    /\ UNCHANGED user_roles

\* the provider renews the access token of the held session and notifies
\* TOKEN_REFRESHED
TokenRefreshed ==
    /\ Mounted
    /\ session # null
    /\ session' = session
    /\ OnAuthStateChange("TOKEN_REFRESHED", session)
    /\ UNCHANGED user_roles

\* the provider ends the session and notifies SIGNED_OUT with no session
SignedOut ==
    /\ Mounted
    /\ session # null
    /\ session' = null
    /\ OnAuthStateChange("SIGNED_OUT", null)
    /\ UNCHANGED user_roles

SessionInit ==
    /\ session \in Actors \cup {null}
    /\ user_roles \in Databases
    /\ user = null
    /\ roles = NullRoles
    /\ permissions = NullPermissions
    /\ loading = TRUE
    /\ calls = <<>>
    /\ nCalls = 0
    /\ lastReturn = NoReturn
    /\ lastEvent = "none"
    /\ permsFor = null

Init ==
    /\ SessionInit
    /\ InvoiceInit
    /\ DataInit

Next ==
    \/ Mount /\ UNCHANGED <<invoiceVars, dataVars>>
    \/ \E a \in Actors : SignedIn(a) /\ UNCHANGED <<invoiceVars, dataVars>>
    \/ TokenRefreshed /\ UNCHANGED <<invoiceVars, dataVars>>
    \/ SignedOut /\ UNCHANGED <<invoiceVars, dataVars>>
    \/ \E i \in 1..Len(calls) : \E o \in {"ok", "authError", "throw"} :
          GetUserDone(i, o) /\ UNCHANGED <<invoiceVars, dataVars>>
    \/ \E i \in 1..Len(calls) : \E o \in {"ok", "error"} :
          RolesDone(i, o) /\ UNCHANGED <<invoiceVars, dataVars>>
    \/ \E i \in 1..Len(calls) : \E o \in {"ok", "error"} :
          PermsDone(i, o) /\ UNCHANGED <<invoiceVars, dataVars>>

Spec == Init /\ [][Next]_vars

\* ------------------------------------------------------------------ claims

\* some invocation of the resolver is still awaiting a collaborator
ResolutionInFlight == Len(calls) > 0

\* the step is calls[i] resuming after one of its two database queries
ResumesAfterQuery(i) ==
    \/ RolesDone(i, "ok")
    \/ RolesDone(i, "error")
    \/ PermsDone(i, "ok")
    \/ PermsDone(i, "error")

\* C1: a resolution started for actor A that resumes after the current actor
\* has changed to another actor B is discarded: it overwrites neither the
\* roles, nor the permission set, nor the loading state.
C1_StaleResultDiscarded ==
    [][\A i \in 1..Len(calls) :
          ( /\ calls[i].pc \in {"roles", "perms"}
            /\ user # null
            /\ user # calls[i].authUser
            /\ ResumesAfterQuery(i) )
          => UNCHANGED <<roles, permissions, loading>>]_vars

\* C2: while the resolution started by the latest sign-in with a new actor
\* identifier has neither completed nor failed closed, the access gate
\* renders the protected view for no resource path.
C2_NoAuthorizedBeforeResolution ==
    (\E i \in 1..Len(calls) : calls[i].latestSignIn)
        => \A p \in Paths : ProtectedRoute(p) # "Authorized"

\* C3: whenever a resolution is in flight the store is in the loading state,
\* so the access gate shows its loading view and never the access-denied view.
C3_LoadingWhileInFlight ==
    ResolutionInFlight
        => /\ loading
           /\ \A p \in Paths : ProtectedRoute(p) = "Loading"

\* C4: the actor and the permission set change as a pair: whenever an actor
\* and a permission set are both held, the set was resolved for that actor.
C4_ActorAndPermissionsPaired ==
    (user # null /\ permissions.some) => permsFor = user

\* C5: once a signed-out event has been handled, the actor, the roles and the
\* permission set are none until the next signed-in event.
C5_ClearedAfterSignOut ==
    lastEvent = "SIGNED_OUT"
        => /\ user = null
           /\ roles = NullRoles
           /\ permissions = NullPermissions

\* C6: an event that re-authenticates the actor already held, a SIGNED_IN
\* revalidation or a TOKEN_REFRESHED, starts no resolution: no role fetch and
\* no permission fetch follow from it, and roles and permissions are kept.
C6_ReauthenticationFetchesNothing ==
    [][( /\ user # null
         /\ session = user
         /\ (SignedIn(user) \/ TokenRefreshed) )
       => UNCHANGED <<calls, nCalls, roles, permissions>>]_vars

\* C7: a signed-in event whose actor identifier differs from the one held
\* starts a new resolution, and the role fetch of that resolution is made for
\* the new actor.
C7_NewActorTriggersResolution ==
    [][ /\ \A a \in Actors :
              (SignedIn(a) /\ user # a)
              => /\ nCalls' = nCalls + 1
                 /\ Len(calls') = Len(calls) + 1
                 /\ calls'[Len(calls')].pc = "getUser"
                 /\ calls'[Len(calls')].token = a
                 /\ calls'[Len(calls')].latestSignIn
                 /\ user' = a
                 /\ loading'
        /\ \A i \in 1..Len(calls) :
              (calls[i].latestSignIn /\ GetUserDone(i, "ok"))
              => IF calls[i].token = null
                 THEN Len(calls') < Len(calls)
                 ELSE /\ calls'[i].pc = "roles"
                      /\ calls'[i].authUser = calls[i].token
      ]_vars

\* C7 witness: the resolution started by a sign-in is fetching the roles of
\* the signed-in actor while the permission set of the actor held before is
\* still in the store.
C7_Witness ==
    \E i \in 1..Len(calls) :
        /\ calls[i].latestSignIn
        /\ calls[i].pc = "roles"
        /\ calls[i].authUser = session
        /\ user = session
        /\ permsFor # null
        /\ permsFor # session

\* C8: a resolution whose role fetch or permission fetch fails ends with
\* roles none and no permission in effect, whatever was held before.
C8_FetchFailureFailsClosed ==
    [][( /\ Len(calls') < Len(calls)
         /\ lastReturn'.failed
         /\ lastReturn'.stage \in {"roles", "perms"} )
       => /\ roles' = NullRoles
          /\ permissions'.val = {}
          /\ \A p \in Paths : ~isAuthorized(p)'
          /\ ~loading']_vars

\* C8 witness: the permission fetch failed after the roles had been stored,
\* and the store holds an actor with no roles and no permissions.
C8_Witness ==
    /\ lastReturn.failed
    /\ lastReturn.stage = "perms"
    /\ user = lastReturn.authUser
    /\ roles = NullRoles
    /\ permissions = NullPermissions
    /\ ~loading

\* C9: a resolution whose role fetch or permission fetch failed surfaces the
\* failure to its caller: the promise it returned rejects with the error.
C9_FailureSurfaced ==
    (lastReturn.failed /\ lastReturn.stage \in {"roles", "perms"})
        => lastReturn.settled = "rejected"

\* C10: a resolution that completes for an actor with zero role memberships
\* yields the empty permission set, without the root path.
C10_NoRolesNoPermissions ==
    [][( /\ Len(calls') < Len(calls)
         /\ ~lastReturn'.failed
         /\ lastReturn'.authUser # null
         /\ user_roles[lastReturn'.authUser] = <<>> )
       => /\ permissions' = SomePermissions({})
          /\ "/" \notin permissions'.val
          /\ roles' = SomeRoles(<<>>)]_vars

\* C10 witness: the resolution of an actor without memberships has completed
\* and the store holds that actor with an empty permission set.
C10_Witness ==
    /\ lastReturn.stage = "roles"
    /\ ~lastReturn.failed
    /\ lastReturn.authUser # null
    /\ user_roles[lastReturn.authUser] = <<>>
    /\ user = lastReturn.authUser
    /\ permissions = SomePermissions({})
    /\ ~loading

\* the resource paths the database grants to actor a: the paths of the
\* allowed grants of the roles a is a member of
AllowedGrantsOf(a) ==
    { g.resource_path : g \in { h \in resource_permissions :
          /\ h.can_access
          /\ \E k \in 1..Len(user_roles[a]) : user_roles[a][k].id = h.role_id } }

\* C11: a resolution that completes for an actor with at least one allowed
\* grant yields the granted paths together with the root path "/"; adding
\* the root path to a set that already has it changes nothing.
C11_RootWithAnyGrant ==
    [][( /\ Len(calls') < Len(calls)
         /\ ~lastReturn'.failed
         /\ lastReturn'.authUser # null
         /\ AllowedGrantsOf(lastReturn'.authUser) # {} )
       => /\ permissions'.some
          /\ "/" \in permissions'.val
          /\ permissions'.val = AllowedGrantsOf(lastReturn'.authUser) \cup {"/"}
          /\ WithRoot(permissions'.val) = permissions'.val
          /\ \A S \in SUBSET Paths :
                "/" \in S => WithRoot(S) = S]_vars

\* C11 witness: the resolution of an actor with an allowed grant has
\* completed and the store holds the grant and the root path.
C11_Witness ==
    /\ lastReturn.stage = "perms"
    /\ ~lastReturn.failed
    /\ AllowedGrantsOf(lastReturn.authUser) # {}
    /\ "/" \notin AllowedGrantsOf(lastReturn.authUser)
    /\ user = lastReturn.authUser
    /\ permissions = SomePermissions(AllowedGrantsOf(user) \cup {"/"})
    /\ ~loading

\* C12: the authorization check is true only if the permission set is
\* present and contains the resource path; with no permission set it is
\* false for every path, and the gate never renders the protected view.
C12_AuthorizedOnlyIfGranted ==
    \A p \in Paths :
        /\ isAuthorized(p) => (permissions.some /\ p \in permissions.val)
        /\ ProtectedRoute(p) = "Authorized" => (permissions.some /\ p \in permissions.val)
        /\ ~permissions.some => (~isAuthorized(p) /\ ProtectedRoute(p) # "Authorized")

\* C12 witness: a signed-in actor whose resolution failed has no permission
\* set, and the gate shows the access-denied view for every path.
C12_Witness ==
    /\ user # null
    /\ ~loading
    /\ ~permissions.some
    /\ \A p \in Paths : ~isAuthorized(p) /\ ProtectedRoute(p) = "Denied"

\* ================================================================= invoicing
\* ------------------------------------------------ pure computations of the form

\* String.prototype.trim on a document number
RECURSIVE TrimStart(_)
TrimStart(s) == IF s # <<>> /\ Head(s) = " " THEN TrimStart(Tail(s)) ELSE s

RECURSIVE TrimEnd(_)
TrimEnd(s) ==
    IF s # <<>> /\ s[Len(s)] = " " THEN TrimEnd(SubSeq(s, 1, Len(s) - 1)) ELSE s

Trim(s) == TrimEnd(TrimStart(s))

\* ClientSchema: tipo_documento min 1, numero_documento min 8,
\* razon_social min 3, direccion min 5
ClientSchemaValid(data) ==
    /\ StrLen(data.tipo_documento) >= 1
    /\ Len(data.numero_documento) >= 8
    /\ StrLen(data.razon_social) >= 3
    /\ StrLen(data.direccion) >= 5

\* DetalleSchema: cantidad min 0.01, mto_valor_unitario min 0, porcentaje_igv min 0
DetalleSchemaValid(d) ==
    /\ d.cantidad >= 1
    /\ d.mto_valor_unitario >= 0
    /\ d.porcentaje_igv >= 0

\* a schema that accepts an empty array of line items
DetallesValid_EmptyAccepted(detalles) ==
    \A i \in 1..Len(detalles) : DetalleSchemaValid(detalles[i])

\* detalles: z.array(DetalleSchema).min(1, ...)
DetallesValid(detalles) ==
    /\ Len(detalles) >= 1
    /\ \A i \in 1..Len(detalles) : DetalleSchemaValid(detalles[i])

\* zodResolver(BoletaPayloadSchema.omit({company_id, branch_id})) on the
\* form values; the fields that are not modelled keep their valid defaults
BoletaPayloadSchemaValid(data) ==
    /\ ClientSchemaValid(data)
    /\ DetallesValid(data.detalles)

\* the inputs whose quotient lies exactly between two hundredths and whose
\* double lies below it, so that toFixed(2) goes down: 3.51 / 1.04 = 3.375
\* is held as 3.37499...
TiesBelow == { <<351, 4>> }

\* a conversion that submits the tax-inclusive value as entered
calculateBaseValue_NotConverted(totalPrice, igvPercentage) == totalPrice

\* calculateBaseValue, in hundredths: total / (1 + igv/100), toFixed(2) of
\* the double (the nearest hundredth; a tie goes where the double lies)
calculateBaseValue(totalPrice, igvPercentage) ==
    IF igvPercentage = 0
    THEN totalPrice
    ELSE IF <<totalPrice, igvPercentage>> \in TiesBelow
    THEN (totalPrice * 100) \div (100 + igvPercentage)
    ELSE (2 * totalPrice * 100 + (100 + igvPercentage)) \div (2 * (100 + igvPercentage))

\* processedDetails of onSubmit
processedDetails(detalles) ==
    [i \in 1..Len(detalles) |->
        [detalles[i] EXCEPT
            !.mto_valor_unitario = calculateBaseValue(@, detalles[i].porcentaje_igv)]]

\* payload of onSubmit
Payload(data) ==
    [company_id |-> COMPANY_ID,
     branch_id |-> BRANCH_ID,
     numero_documento |-> data.numero_documento,
     razon_social |-> data.razon_social,
     detalles |-> processedDetails(data.detalles)]

\* const fileName = `${serieCorrelativo}.pdf`
FileName(serieCorrelativo) == <<serieCorrelativo, ".pdf">>

\* an upload path that is not keyed by the member
FilePath_Unkeyed(socioId, fileName) == <<NullSocioId, "/">> \o fileName

\* const filePath = `${socioId}/${fileName}`
FilePath(socioId, fileName) == <<socioId, "/">> \o fileName

\* a lookup that short-circuits on the empty string only
ShortCircuits_EmptyOnly(docNumber) == docNumber = <<>>

\* if (!docNumber || docNumber.length < 8) return null
ShortCircuits(docNumber) == docNumber = <<>> \/ Len(docNumber) < 8

\* .from('socio_titulares').select(...).eq('dni', docNumber).single()
SocioRows(docNumber) == { r \in socio_titulares : r.dni = docNumber }

\* a download handler that goes on without a member identifier
SocioKnown_Always(socioId) == TRUE

\* the negation of !currentSocioId in handleDownloadPdf
SocioKnown(socioId) == socioId # NullSocioId

\* issueBoleta returns the parsed body for every 2xx body that
\* IssueResponseSchema accepts; the schema takes any boolean for success
IssueBoletaReturns(outcome) == outcome \in {"success", "notSuccess"}

\* the outcomes of the POST /boletas request
IssueOutcomes == {"success", "notSuccess", "unparseable", "apiError", "network"}
\* --------------------------------------------------------- client lookup

\* sequence q without its i-th element
Drop(q, i) == SubSeq(q, 1, i - 1) \o SubSeq(q, i + 1, Len(q))

\* what fetchClientByDocument hands back
LookupResult(docNumber, result, id, queried) ==
    [docNumber |-> docNumber, result |-> result, id |-> id, queried |-> queried]

\* the Client built from a socio_titulares row (id, razon_social, direccion)
ClientOf(socioData) ==
    [id |-> socioData.id,
     razon_social |-> socioData.nombres,
     direccion |-> socioData.direccionDNI]

\* fetchClientByDocument up to its await: either the early return of null
\* or the query sent to the database
fetchClientByDocument(docNumber, viaForm) ==
    IF ShortCircuits(docNumber)
    THEN /\ lastLookup' = LookupResult(docNumber, "null", NullSocioId, FALSE)
         /\ UNCHANGED searches
    ELSE /\ searches' = Append(searches, [docNumber |-> docNumber, viaForm |-> viaForm])
         /\ UNCHANGED lastLookup

\* handleClientSearch, branch if (clientData): member id and fields stored
ClientFound(clientData) ==
    /\ currentSocioId' = clientData.id
    /\ form' = [form EXCEPT !.razon_social = clientData.razon_social,
                            !.direccion = clientData.direccion]
    /\ lastToasts' = <<"Cliente Encontrado">>

\* handleClientSearch, else branch: the client fields are emptied
ClientNotFound ==
    /\ form' = [form EXCEPT !.razon_social = "", !.direccion = ""]
    /\ lastToasts' = <<"Cliente No Encontrado">>
    /\ UNCHANGED currentSocioId

\* handleClientSearch, catch branch
ClientSearchFailed ==
    /\ lastToasts' = <<"Error de Búsqueda">>
    /\ UNCHANGED <<form, currentSocioId>>

\* handleClientSearch(e) with e.target.value = value, up to its await
handleClientSearch(value) ==
    /\ currentSocioId' = NullSocioId
    /\ IF form.tipo_documento # "1" \/ Len(Trim(value)) < 8
       THEN /\ lastToasts' = <<>>
            /\ UNCHANGED <<form, isClientSearching, searches, lastLookup>>
       ELSE \* the trimmed value has 8 characters or more: the query is sent
            /\ fetchClientByDocument(Trim(value), TRUE)
            /\ isClientSearching' = TRUE
            /\ lastToasts' = <<>>
            /\ UNCHANGED form

\* a lookup that treats "no rows" (PGRST116) like every other error
fetchClientResult_NoRowsThrows(outcome, rows) ==
    IF outcome # "answer" \/ rows = {} THEN "throws" ELSE "client"

\* fetchClientByDocument after the await: an error other than PGRST116 and
\* a rejected call are thrown, no row is null, a row is a Client
fetchClientResult(outcome, rows) ==
    IF outcome # "answer" THEN "throws"
    ELSE IF rows # {} THEN "client" ELSE "null"

\* the database answers the query of lookup i, or the call fails
LookupDone(i, outcome) ==
    LET s == searches[i]
        rows == SocioRows(s.docNumber)
        found == outcome = "answer" /\ rows # {}
        socioData == CHOOSE r \in rows : TRUE
        result == fetchClientResult(outcome, rows)
    IN  /\ searches' = Drop(searches, i)
        /\ lastLookup' = IF s.viaForm
                          THEN lastLookup
                          ELSE LookupResult(s.docNumber, result,
                                   IF found THEN socioData.id ELSE NullSocioId, TRUE)
        /\ IF s.viaForm
           THEN /\ isClientSearching' = FALSE
                /\ CASE result = "client" -> ClientFound(ClientOf(socioData))
                     [] result = "null" -> ClientNotFound
                     [] result = "throws" -> ClientSearchFailed
           ELSE /\ lastToasts' = <<>>
                /\ UNCHANGED <<form, currentSocioId, isClientSearching>>
        /\ UNCHANGED <<isSubmitting, isGeneratingPdf, lastIssuedBoleta, submits,
                       downloads, lastValidation>>
        /\ lastSave' = <<>>
        /\ UNCHANGED issuedFor

\* ------------------------------------------------------------- issuance

\* onSubmit(data) up to await issueBoleta(payload)
onSubmit(data) ==
    /\ isSubmitting' = TRUE
    /\ lastIssuedBoleta' = NullBoleta
    /\ issuedFor' = <<>>
    /\ submits' = Append(submits,
           [pc |-> "issuing", payload |-> Payload(data), response |-> "none yet",
            boletaId |-> 0, nIssue |-> 1, nGenerate |-> 0])

\* form.handleSubmit(onSubmit): the resolver validates the values and
\* onSubmit runs only if there is no error
handleSubmit(data) ==
    IF BoletaPayloadSchemaValid(data)
    THEN /\ lastValidation' = "passed"
         /\ onSubmit(data)
    ELSE /\ lastValidation' = "failed"
         /\ UNCHANGED <<isSubmitting, lastIssuedBoleta, issuedFor, submits>>

\* an onSubmit that sends the issuance request again when it has failed
IssueFailed_Retried(i) ==
    /\ submits' = [submits EXCEPT ![i].nIssue = @ + 1]
    /\ lastToasts' = <<>>
    /\ UNCHANGED isSubmitting

\* onSubmit: catch (toast "Error de Emision") and finally
IssueFailed(i) ==
    /\ submits' = Drop(submits, i)
    /\ lastToasts' = <<"Error de Emisión">>
    /\ isSubmitting' = FALSE

\* the invoicing API answers POST /boletas for submission i, or the call
\* fails; on a returned body onSubmit stores the invoice and enters
\* handleGeneratePdf up to await generateBoletaPdf
IssueDone(i, outcome, data) ==
    /\ submits[i].pc = "issuing"
    /\ IF IssueBoletaReturns(outcome)
       THEN /\ lastIssuedBoleta' = SomeBoleta(data.id, data.numero_completo)
            /\ issuedFor' = submits[i].payload.numero_documento
            /\ isGeneratingPdf' = TRUE
            /\ submits' = [submits EXCEPT ![i].pc = "generating",
                                          ![i].response = outcome,
                                          ![i].boletaId = data.id,
                                          ![i].nGenerate = @ + 1]
            /\ lastToasts' = <<>>
            /\ UNCHANGED isSubmitting
       ELSE /\ IssueFailed(i)
            /\ UNCHANGED <<lastIssuedBoleta, issuedFor, isGeneratingPdf>>
    /\ UNCHANGED <<form, isClientSearching, currentSocioId, downloads, searches,
                   lastLookup, lastValidation>>
    /\ lastSave' = <<>>

\* a handler that discards the issued invoice when the PDF request fails
BoletaAfterPdfError_Discarded == NullBoleta

\* handleGeneratePdf's catch only toasts: the invoice cell is not written
BoletaAfterPdfError == lastIssuedBoleta

\* the invoicing API answers POST /boletas/{id}/generate-pdf, or the call
\* fails: handleGeneratePdf toasts and clears its flag, then onSubmit
\* toasts its success and runs its finally
GenerateDone(i, outcome) ==
    /\ submits[i].pc = "generating"
    /\ submits' = Drop(submits, i)
    /\ isGeneratingPdf' = FALSE
    /\ isSubmitting' = FALSE
    /\ IF outcome = "ok"
       THEN /\ lastToasts' = <<"Generación de PDF Solicitada", "Boleta Emitida con Éxito">>
            /\ UNCHANGED lastIssuedBoleta
       ELSE /\ lastToasts' = <<"Error de PDF", "Boleta Emitida con Éxito">>
            /\ lastIssuedBoleta' = BoletaAfterPdfError
    /\ UNCHANGED <<form, isClientSearching, currentSocioId, downloads, searches,
                   lastLookup, lastValidation>>
    /\ lastSave' = <<>>
    /\ UNCHANGED issuedFor

\* -------------------------------------------------- download and archive

\* handleDownloadPdf up to await downloadBoletaPdf, which sends the GET
handleDownloadPdf ==
    IF ~lastIssuedBoleta.some
    THEN /\ lastToasts' = <<"Error: No hay una boleta emitida para descargar.">>
         /\ UNCHANGED downloads
    ELSE IF ~SocioKnown(currentSocioId)
    THEN /\ lastToasts' = <<"Error: No se ha identificado un socio para asociar el comprobante.">>
         /\ UNCHANGED downloads
    ELSE /\ downloads' = Append(downloads,
                [pc |-> "downloading",
                 boletaId |-> lastIssuedBoleta.id,
                 serieCorrelativo |-> lastIssuedBoleta.numero_completo,
                 socioId |-> currentSocioId,
                 filePath |-> <<>>,
                 nGet |-> 1, nUpload |-> 0])
         /\ lastToasts' = <<>>

\* downloadBoletaPdf rethrows and handleDownloadPdf's catch toasts
DownloadFailed(i) ==
    /\ downloads' = Drop(downloads, i)
    /\ lastToasts' = <<"Error de Descarga/Guardado">>
    /\ lastSave' = <<>>

\* the invoicing API answers GET /boletas/{id}/download-pdf with the blob,
\* and the upload to the bucket is sent; or the call fails
DownloadPdfDone(i, outcome) ==
    /\ downloads[i].pc = "downloading"
    /\ IF outcome = "ok"
       THEN /\ downloads' = [downloads EXCEPT
                   ![i].pc = "uploading",
                   ![i].filePath = FilePath(downloads[i].socioId,
                                            FileName(downloads[i].serieCorrelativo)),
                   ![i].nUpload = @ + 1]
            /\ lastToasts' = <<>>
            /\ lastSave' = <<>>
       ELSE DownloadFailed(i)
    /\ UNCHANGED <<form, isSubmitting, isClientSearching, isGeneratingPdf,
                   lastIssuedBoleta, currentSocioId, submits, searches, lastLookup,
                   lastValidation>>
    /\ UNCHANGED issuedFor

\* a download that does not look at the upload's error
UploadSucceeded_Unchecked(outcome) == TRUE

\* if (uploadError) throw ...: the upload's answer carries no error
UploadSucceeded(outcome) == outcome = "ok"

\* the bucket answers the upload (upsert) of download i: on success the
\* browser saves the file (link.click()) and handleDownloadPdf toasts
UploadDone(i, outcome) ==
    /\ downloads[i].pc = "uploading"
    /\ IF UploadSucceeded(outcome)
       THEN /\ downloads' = Drop(downloads, i)
            /\ lastSave' = FileName(downloads[i].serieCorrelativo)
            /\ lastToasts' = <<"Descarga Iniciada y Guardada">>
       ELSE DownloadFailed(i)
    /\ UNCHANGED <<form, isSubmitting, isClientSearching, isGeneratingPdf,
                   lastIssuedBoleta, currentSocioId, submits, searches, lastLookup,
                   lastValidation>>
\* ------------------------------------------------- the controls of the page
    /\ UNCHANGED issuedFor

\* the handler invocations that are awaiting a collaborator
InFlight == Len(submits) + Len(downloads) + Len(searches)

\* what the user types into the client fields
TypedDocNumbers == {Doc7, DocAna, DocLuis}
TypedValues(field) ==
    CASE field = "numero_documento" -> TypedDocNumbers
      [] field = "direccion" -> {"Jr. Lima 123"}

\* a submit button that stays usable while an invoice is held
SubmitEnabled_IgnoringIssued ==
    /\ ~isSubmitting
    /\ ~isClientSearching
    /\ BoletaPayloadSchemaValid(form)

\* submit button: disabled={isSubmitting || isClientSearching ||
\*                          !form.formState.isValid || !!lastIssuedBoleta}
SubmitEnabled ==
    /\ ~isSubmitting
    /\ ~isClientSearching
    /\ BoletaPayloadSchemaValid(form)
    /\ ~lastIssuedBoleta.some

\* download button: rendered if lastIssuedBoleta,
\* disabled={isGeneratingPdf || !currentSocioId}
DownloadEnabled ==
    /\ lastIssuedBoleta.some
    /\ ~isGeneratingPdf
    /\ currentSocioId # NullSocioId

\* the user types into a client field (the document input is disabled
\* while a lookup runs)
ChangeClientField(field, value) ==
    /\ field = "numero_documento" => ~isClientSearching
    /\ form' = [form EXCEPT ![field] = value]
    /\ lastToasts' = <<>>
    /\ UNCHANGED <<isSubmitting, isClientSearching, isGeneratingPdf,
                   lastIssuedBoleta, currentSocioId, submits, downloads, searches,
                   lastLookup, lastValidation>>
    /\ lastSave' = <<>>
    /\ UNCHANGED issuedFor

\* the button that appends a default line item
AppendItem ==
    /\ Len(form.detalles) < MaxItems
    /\ form' = [form EXCEPT !.detalles = Append(@, DefaultItem)]
    /\ lastToasts' = <<>>
    /\ UNCHANGED <<isSubmitting, isClientSearching, isGeneratingPdf,
                   lastIssuedBoleta, currentSocioId, submits, downloads, searches,
                   lastLookup, lastValidation>>
    /\ lastSave' = <<>>
    /\ UNCHANGED issuedFor

\* the remove button of line item i, rendered only if fields.length > 1
RemoveItem(i) ==
    /\ Len(form.detalles) > 1
    /\ form' = [form EXCEPT !.detalles = Drop(@, i)]
    /\ lastToasts' = <<>>
    /\ UNCHANGED <<isSubmitting, isClientSearching, isGeneratingPdf,
                   lastIssuedBoleta, currentSocioId, submits, downloads, searches,
                   lastLookup, lastValidation>>
    /\ lastSave' = <<>>
    /\ UNCHANGED issuedFor

\* the document input loses focus
BlurDocNumber ==
    /\ ~isClientSearching
    /\ InFlight < MaxInFlight
    /\ handleClientSearch(form.numero_documento)
    /\ UNCHANGED <<isSubmitting, isGeneratingPdf, lastIssuedBoleta, submits,
                   downloads, lastValidation>>
    /\ lastSave' = <<>>
    /\ UNCHANGED issuedFor

\* the submit button is pressed
ClickSubmit ==
    /\ SubmitEnabled
    /\ InFlight < MaxInFlight
    /\ handleSubmit(form)
    /\ lastToasts' = <<>>
    /\ UNCHANGED <<form, isClientSearching, isGeneratingPdf, currentSocioId,
                   downloads, searches, lastLookup>>
    /\ lastSave' = <<>>

\* the download button is pressed
ClickDownload ==
    /\ DownloadEnabled
    /\ InFlight < MaxInFlight
    /\ handleDownloadPdf
    /\ UNCHANGED <<form, isSubmitting, isClientSearching, isGeneratingPdf,
                   lastIssuedBoleta, currentSocioId, submits, searches, lastLookup,
                   lastValidation>>
    /\ lastSave' = <<>>
    /\ UNCHANGED issuedFor

\* button "Nueva Boleta", rendered if lastIssuedBoleta
ClickNuevaBoleta ==
    /\ lastIssuedBoleta.some
    /\ form' = defaultValues
    /\ lastIssuedBoleta' = NullBoleta
    /\ currentSocioId' = NullSocioId
    /\ lastToasts' = <<>>
    /\ UNCHANGED <<isSubmitting, isClientSearching, isGeneratingPdf, submits,
                   downloads, searches, lastLookup, lastValidation>>
    /\ lastSave' = <<>>
    /\ issuedFor' = <<>>

\* --------------------------------- the handlers and functions called directly
\* (the caller awaits a handler before it calls the same handler again)

\* the invoice requests handed to handleSubmit: a complete client with
\* no line item, one line item, ... up to MaxItems
ValidRequest ==
    [tipo_documento |-> "1", numero_documento |-> DocAna, razon_social |-> "Ana Ruiz",
     direccion |-> "Jr. Lima 123", detalles |-> <<DefaultItem>>]
Requests ==
    { [ValidRequest EXCEPT !.detalles = [i \in 1..n |-> DefaultItem]] : n \in 0..MaxItems }

\* form.handleSubmit(onSubmit) is called with the form holding data
InvokeSubmit(data) ==
    /\ submits = <<>>
    /\ form' = data
    /\ handleSubmit(data)
    /\ lastToasts' = <<>>
    /\ UNCHANGED <<isClientSearching, isGeneratingPdf, currentSocioId, downloads,
                   searches, lastLookup>>
    /\ lastSave' = <<>>

\* handleDownloadPdf is called, whatever the state of its button
InvokeDownload ==
    /\ downloads = <<>>
    /\ handleDownloadPdf
    /\ UNCHANGED <<form, isSubmitting, isClientSearching, isGeneratingPdf,
                   lastIssuedBoleta, currentSocioId, submits, searches, lastLookup,
                   lastValidation>>
    /\ lastSave' = <<>>
    /\ UNCHANGED issuedFor

\* handleClientSearch is called with an event whose target holds value
InvokeClientSearch(value) ==
    /\ searches = <<>>
    /\ handleClientSearch(value)
    /\ UNCHANGED <<isSubmitting, isGeneratingPdf, lastIssuedBoleta, submits,
                   downloads, lastValidation>>
    /\ lastSave' = <<>>
    /\ UNCHANGED issuedFor

\* fetchClientByDocument(docNumber) is called
InvokeFetchClient(docNumber) ==
    /\ searches = <<>>
    /\ fetchClientByDocument(docNumber, FALSE)
    /\ lastToasts' = <<>>
    /\ UNCHANGED <<form, isSubmitting, isClientSearching, isGeneratingPdf,
                   lastIssuedBoleta, currentSocioId, submits, downloads,
                   lastValidation>>
    /\ lastSave' = <<>>
    /\ UNCHANGED issuedFor

\* ---------------------------------------------------------- specifications

\* BoletaForm does not read the session store: its cells stay as constructed
InitInvoice ==
    /\ Init
    /\ session = null
    /\ user_roles = [a \in Actors |-> IF a = "u1" THEN <<RoleAdmin>> ELSE <<>>]

\* the page as the user drives it, and the answers of the collaborators
NextInvoice ==
    \/ /\ \E f \in {"numero_documento", "direccion"} :
             \E v \in TypedValues(f) : ChangeClientField(f, v)
       /\ UNCHANGED <<sessionVars, dataVars>>
    \/ AppendItem /\ UNCHANGED <<sessionVars, dataVars>>
    \/ (\E i \in 1..Len(form.detalles) : RemoveItem(i)) /\ UNCHANGED <<sessionVars, dataVars>>
    \/ BlurDocNumber /\ UNCHANGED <<sessionVars, dataVars>>
    \/ ClickSubmit /\ UNCHANGED <<sessionVars, dataVars>>
    \/ ClickDownload /\ UNCHANGED <<sessionVars, dataVars>>
    \/ ClickNuevaBoleta /\ UNCHANGED <<sessionVars, dataVars>>
    \/ /\ \E i \in 1..Len(searches) : \E o \in {"answer", "error", "throw"} :
             LookupDone(i, o)
       /\ UNCHANGED <<sessionVars, dataVars>>
    \/ /\ \E i \in 1..Len(submits) : \E o \in IssueOutcomes : \E d \in IssuedData :
             IssueDone(i, o, d)
       /\ UNCHANGED <<sessionVars, dataVars>>
    \/ /\ \E i \in 1..Len(submits) : \E o \in {"ok", "error"} : GenerateDone(i, o)
       /\ UNCHANGED <<sessionVars, dataVars>>
    \/ /\ \E i \in 1..Len(downloads) : \E o \in {"ok", "error"} : DownloadPdfDone(i, o)
       /\ UNCHANGED <<sessionVars, dataVars>>
    \/ /\ \E i \in 1..Len(downloads) : \E o \in {"ok", "error"} : UploadDone(i, o)
       /\ UNCHANGED <<sessionVars, dataVars>>

SpecInvoice == InitInvoice /\ [][NextInvoice]_vars

\* the handlers and the API functions as a caller drives them, and the
\* answers of the collaborators
NextHandlers ==
    \/ (\E data \in Requests : InvokeSubmit(data)) /\ UNCHANGED <<sessionVars, dataVars>>
    \/ InvokeDownload /\ UNCHANGED <<sessionVars, dataVars>>
    \/ (\E value \in DocNumbers : InvokeClientSearch(value)) /\ UNCHANGED <<sessionVars, dataVars>>
    \/ (\E docNumber \in DocNumbers : InvokeFetchClient(docNumber)) /\ UNCHANGED <<sessionVars, dataVars>>
    \/ /\ \E i \in 1..Len(searches) : \E o \in {"answer", "error", "throw"} :
             LookupDone(i, o)
       /\ UNCHANGED <<sessionVars, dataVars>>
    \/ /\ \E i \in 1..Len(submits) : \E o \in IssueOutcomes : \E d \in IssuedData :
             IssueDone(i, o, d)
       /\ UNCHANGED <<sessionVars, dataVars>>
    \/ /\ \E i \in 1..Len(submits) : \E o \in {"ok", "error"} : GenerateDone(i, o)
       /\ UNCHANGED <<sessionVars, dataVars>>
    \/ /\ \E i \in 1..Len(downloads) : \E o \in {"ok", "error"} : DownloadPdfDone(i, o)
       /\ UNCHANGED <<sessionVars, dataVars>>
    \/ /\ \E i \in 1..Len(downloads) : \E o \in {"ok", "error"} : UploadDone(i, o)
       /\ UNCHANGED <<sessionVars, dataVars>>

SpecHandlers == InitInvoice /\ [][NextHandlers]_vars
\* ------------------------------------------------------- invoicing claims

\* C13: an issued invoice comes to be held only by a step in which a
\* submission receives an issuance response that reports success; a
\* response that does not report success, an unparseable response or a
\* transport failure never creates one.
C13_InvoiceOnlyOnSuccess ==
    [][(lastIssuedBoleta'.some /\ lastIssuedBoleta' # lastIssuedBoleta)
       => \E i \in 1..Len(submits) :
             /\ submits[i].pc = "issuing"
             /\ i <= Len(submits')
             /\ submits'[i].pc = "generating"
             /\ submits'[i].response = "success"
             /\ submits'[i].boletaId = lastIssuedBoleta'.id]_vars

\* C14: when a submission ends that the collaborator rejected or that failed
\* on the network, no issued invoice is held, the form is not submitting,
\* and the submit button is enabled again for a valid form.
C14_ReadyAfterRejection ==
    [][\A i \in 1..Len(submits) :
          ( /\ submits' = Drop(submits, i)
            /\ submits[i].pc = "issuing" \/ submits[i].response # "success" )
          => /\ ~lastIssuedBoleta'.some
             /\ ~isSubmitting'
             /\ (BoletaPayloadSchemaValid(form') /\ ~isClientSearching') => SubmitEnabled']_vars

\* C15: a download is requested for the id and the document number of the
\* held invoice and for the member known at that moment, and its upload
\* goes to the path "{memberId}/{numero_completo}.pdf" of those values.
C15_UploadPathOfHeldInvoice ==
    [][ /\ Len(downloads') > Len(downloads) =>
             LET d == downloads'[Len(downloads')]
             IN  /\ lastIssuedBoleta.some
                 /\ currentSocioId # NullSocioId
                 /\ d.boletaId = lastIssuedBoleta.id
                 /\ d.serieCorrelativo = lastIssuedBoleta.numero_completo
                 /\ d.socioId = currentSocioId
        /\ \A i \in 1..Len(downloads') :
             /\ [id |-> downloads'[i].boletaId,
                 numero_completo |-> downloads'[i].serieCorrelativo] \in IssuedData
             /\ downloads'[i].pc = "uploading" =>
                  downloads'[i].filePath =
                      <<downloads'[i].socioId, "/", downloads'[i].serieCorrelativo, ".pdf">>
      ]_vars

\* C15 witness: the PDF of invoice 42 of member 7 is being uploaded to
\* 7/B001-00042.pdf while that invoice is held.
C15_Witness ==
    /\ lastIssuedBoleta = SomeBoleta(42, "B001-00042")
    /\ \E i \in 1..Len(downloads) :
          /\ downloads[i].pc = "uploading"
          /\ downloads[i].boletaId = 42
          /\ downloads[i].filePath = <<7, "/", "B001-00042", ".pdf">>

\* C16: a request with zero line items fails the validation of handleSubmit
\* and no issuance request is sent for it: every issuance request in flight
\* carries at least one line item.
C16_NoItemsNoRequest ==
    /\ Len(form.detalles) = 0 => (lastValidation = "failed" /\ submits = <<>>)
    /\ \A i \in 1..Len(submits) : Len(submits[i].payload.detalles) >= 1

\* C16 witness: handleSubmit has run on a request without line items.
C16_Witness ==
    /\ Len(form.detalles) = 0
    /\ ClientSchemaValid(form)
    /\ lastValidation = "failed"
    /\ ~isSubmitting
    /\ submits = <<>>

\* C17: handleDownloadPdf called while no member identifier is known shows
\* an error and sends nothing; with an invoice held the error says that no
\* member has been identified.
C17_NoMemberNoDownload ==
    [][(handleDownloadPdf /\ currentSocioId = NullSocioId)
       => /\ downloads' = downloads
          /\ Len(lastToasts') = 1
          /\ lastIssuedBoleta.some =>
                lastToasts' = <<"Error: No se ha identificado un socio para asociar el comprobante.">>
      ]_vars

\* C17 witness: the handler has refused a download for want of a member
\* while an invoice is held.
C17_Witness ==
    /\ lastIssuedBoleta.some
    /\ currentSocioId = NullSocioId
    /\ lastToasts = <<"Error: No se ha identificado un socio para asociar el comprobante.">>
    /\ downloads = <<>>

\* C18: when the PDF-generation request fails the failure is shown and the
\* invoice cell is left as it was: the issued invoice is still held.
C18_PdfErrorKeepsInvoice ==
    [][\A i \in 1..Len(submits) :
          GenerateDone(i, "error")
          => /\ lastToasts'[1] = "Error de PDF"
             /\ lastIssuedBoleta' = lastIssuedBoleta
             /\ lastIssuedBoleta.some => lastIssuedBoleta'.id = submits[i].boletaId]_vars

\* C18 witness: the PDF request of a submission has failed and the invoice
\* is held.
C18_Witness ==
    /\ lastToasts = <<"Error de PDF", "Boleta Emitida con Éxito">>
    /\ lastIssuedBoleta.some
    /\ submits = <<>>
    /\ ~isSubmitting

\* C19: one submission sends at most one issuance request and at most one
\* PDF-generation request, one download action at most one download request
\* and one upload.
C19_NoRetry ==
    /\ \A i \in 1..Len(submits) :
          /\ submits[i].nIssue <= 1
          /\ submits[i].nGenerate <= 1
          /\ submits[i].pc = "issuing" => submits[i].nGenerate = 0
    /\ \A i \in 1..Len(downloads) :
          /\ downloads[i].nGet <= 1
          /\ downloads[i].nUpload <= 1
          /\ downloads[i].pc = "downloading" => downloads[i].nUpload = 0

\* C19 witness: an issuance request has failed and nothing is in flight.
C19_Witness ==
    /\ lastToasts = <<"Error de Emisión">>
    /\ InFlight = 0
    /\ ~isSubmitting
    /\ ~lastIssuedBoleta.some

\* C20: for a document number shorter than 8 characters
\* fetchClientByDocument returns null without querying the database.
C20_ShortDocumentNoQuery ==
    /\ (lastLookup.result # "none yet" /\ Len(lastLookup.docNumber) < 8)
          => (lastLookup.result = "null" /\ ~lastLookup.queried)
    /\ \A i \in 1..Len(searches) : Len(searches[i].docNumber) >= 8

\* C20 witness: fetchClientByDocument has been called with 7 characters.
C20_Witness ==
    /\ lastLookup.docNumber = Doc7
    /\ lastLookup.result = "null"
    /\ ~lastLookup.queried
\* C21: fetchClientByDocument hands back null when the database answers and
\* no row matches, a Client when a row matches, and throws exactly when the
\* database reports an error or the call fails; handleClientSearch shows
\* "Cliente No Encontrado" for the one and "Error de Búsqueda" for the other.
C21_NotFoundIsNotAnError ==
    [][\A i \in 1..Len(searches) : \A o \in {"answer", "error", "throw"} :
          LookupDone(i, o)
          => LET rows == SocioRows(searches[i].docNumber)
             IN  IF searches[i].viaForm
                 THEN /\ (o = "answer" /\ rows = {}) <=> lastToasts' = <<"Cliente No Encontrado">>
                      /\ (o # "answer") <=> lastToasts' = <<"Error de Búsqueda">>
                 ELSE /\ lastLookup'.docNumber = searches[i].docNumber
                      /\ (o = "answer" /\ rows = {}) <=> lastLookup'.result = "null"
                      /\ (o # "answer") <=> lastLookup'.result = "throws"
                      /\ (o = "answer" /\ rows # {}) <=>
                            (lastLookup'.result = "client" /\ \E r \in rows : r.id = lastLookup'.id)
      ]_vars

\* C21 witness: a direct call for a document number nobody has was answered
\* by the database and returned null.
C21_Witness ==
    /\ lastLookup.docNumber = DocUnknown
    /\ lastLookup.result = "null"
    /\ lastLookup.queried
\* ------------------------------------------- line items of a submission

\* tax-inclusive unit values (hundredths) and tax percentages entered in a
\* line item: the defaults, a value whose quotient is a tie, and no tax
ItemTotals == {DEFAULT_ITEM_UNIT_VALUE, 351}
ItemIgvs == {DEFAULT_IGV_PERCENTAGE, 4, 0}
Items ==
    { [cantidad |-> 100, mto_valor_unitario |-> t, porcentaje_igv |-> g] :
        t \in ItemTotals, g \in ItemIgvs }

\* the requests of one line item, ... up to MaxItems, for a complete client
ItemRequests ==
    UNION { { [ValidRequest EXCEPT !.detalles = d] : d \in [1..n -> Items] } :
            n \in 1..MaxItems }

\* handleSubmit is called with requests whose line items differ
NextLineItems ==
    \/ (\E data \in ItemRequests : InvokeSubmit(data)) /\ UNCHANGED <<sessionVars, dataVars>>
    \/ /\ \E i \in 1..Len(submits) : \E o \in IssueOutcomes : \E d \in IssuedData :
             IssueDone(i, o, d)
       /\ UNCHANGED <<sessionVars, dataVars>>
    \/ /\ \E i \in 1..Len(submits) : \E o \in {"ok", "error"} : GenerateDone(i, o)
       /\ UNCHANGED <<sessionVars, dataVars>>

SpecLineItems == InitInvoice /\ [][NextLineItems]_vars

\* C22: every line item of an issuance request carries the tax percentage
\* entered and, as unit value, the hundredth nearest to
\* total / (1 + taxPercent/100) of the tax-inclusive value entered; for
\* 250.00 and 18 it is 211.86.
C22_BaseValueSubmitted ==
    [][Len(submits') > Len(submits) =>
          LET sent == submits'[Len(submits')].payload.detalles
          IN  /\ Len(sent) = Len(form'.detalles)
              /\ \A k \in 1..Len(sent) :
                    LET total == form'.detalles[k].mto_valor_unitario
                        igv == form'.detalles[k].porcentaje_igv
                        base == sent[k].mto_valor_unitario
                        err == base * (100 + igv) - total * 100
                    IN  /\ sent[k].porcentaje_igv = igv
                        /\ 2 * err <= 100 + igv
                        /\ 2 * err >= 0 - (100 + igv)
                        /\ (total = 25000 /\ igv = 18) => base = 21186]_vars

\* C22 witness: an issuance request is in flight whose line items were
\* entered as 250.00 with 18 % and as 3.51 with 4 %.
C22_Witness ==
    /\ Len(submits) = 1
    /\ submits[1].pc = "issuing"
    /\ form.detalles[1].mto_valor_unitario = 25000
    /\ form.detalles[1].porcentaje_igv = 18
    /\ submits[1].payload.detalles[1].mto_valor_unitario = 21186
    /\ Len(form.detalles) = 2
    /\ form.detalles[2].mto_valor_unitario = 351
    /\ form.detalles[2].porcentaje_igv = 4
    /\ submits[1].payload.detalles[2].mto_valor_unitario = 337
C24_SaveOnlyAfterUpload ==
    [][ /\ lastSave' # <<>> =>
             \E i \in 1..Len(downloads) :
                /\ downloads[i].pc = "uploading"
                /\ downloads[i].nUpload = 1
                /\ downloads' = Drop(downloads, i)
                /\ lastToasts' = <<"Descarga Iniciada y Guardada">>
                /\ lastSave' = <<downloads[i].serieCorrelativo, ".pdf">>
        /\ \A i \in 1..Len(downloads) :
             (DownloadPdfDone(i, "error") \/ UploadDone(i, "error")) => lastSave' = <<>>
      ]_vars

\* C24 witness: the upload of invoice B001-00042 has succeeded and the file
\* has been saved.
C24_Witness ==
    /\ lastSave = <<"B001-00042", ".pdf">>
    /\ lastToasts = <<"Descarga Iniciada y Guardada">>
\* the members whose document number is the one given
MembersOf(docNumber) == { r.id : r \in { t \in socio_titulares : t.dni = docNumber } }

\* C25: the answer of a client lookup that arrives while an issued invoice
\* is held never makes the member identifier that keys the archived PDF
\* (currentSocioId, which a download passes on) a member that does not have
\* the document number of the issued invoice.
C25_ArchiveKeyedByIssuedMember ==
    [][\A i \in 1..Len(searches) : \A o \in {"answer", "error", "throw"} :
          (lastIssuedBoleta.some /\ LookupDone(i, o))
          => currentSocioId' \in MembersOf(issuedFor) \cup {NullSocioId}]_vars

\* C26: at most one submission is in flight; a submission starts only when
\* none is in flight and no issued invoice is held; and a held invoice is
\* given up only by the button "Nueva Boleta".
C26_OneIssuanceAtATime ==
    [][ /\ Len(submits') <= 1
        /\ Len(submits') > Len(submits) =>
              /\ submits = <<>>
              /\ ~lastIssuedBoleta.some
              /\ submits'[1].pc = "issuing"
        /\ (lastIssuedBoleta.some /\ ~lastIssuedBoleta'.some) => ClickNuevaBoleta
      ]_vars

\* C26 witness: an issued invoice is held, nothing is in flight and the form
\* is valid: only the held invoice keeps the submit button disabled.
C26_Witness ==
    /\ lastIssuedBoleta.some
    /\ issuedFor = DocAna
    /\ submits = <<>>
    /\ ~isSubmitting
    /\ ~isClientSearching
    /\ BoletaPayloadSchemaValid(form)
    /\ ~SubmitEnabled

\* ------------------------------------------------------------- the routes

\* no access gate around a route
NoGate == "no gate"

\* App's <Routes>: the resourcePath of the ProtectedRoute element that wraps
\* the route of a view, or NoGate. The index route of "/" (Dashboard) stands
\* directly under DashboardLayout.
RouteGate(view) ==
    IF view = "/" THEN NoGate ELSE view

\* DashboardLayout shows a spinner while the store loads, sends an actor
\* without user to /auth, and else renders the layout with its Outlet
DashboardLayout ==
    IF loading THEN "Loading"
    ELSE IF user = null THEN "Redirect"
    ELSE "Outlet"

\* whether the element of the route of a view is rendered when the actor has
\* navigated to it: a gated route renders its Outlet only if the gate
\* authorizes
RouteRenders(view) ==
    /\ DashboardLayout = "Outlet"
    /\ IF RouteGate(view) = NoGate
       THEN TRUE
       ELSE ProtectedRoute(RouteGate(view)) = "Authorized"

\* C27: once the session store has settled for a signed-in actor, each
\* dashboard view, the home view "/" included, is rendered only if the
\* actor's permission set contains the view's resource path.
C27_ViewsOnlyIfPermitted ==
    \A view \in Paths :
        ( /\ session # null
          /\ user = session
          /\ ~loading
          /\ calls = <<>>
          /\ RouteRenders(view) )
        => (permissions.some /\ view \in permissions.val)
\* ============================================ the data hook and Expenses

\* ------------------------------------------------------- expense numbers

\* the value of a decimal digit, or -1 for any other character
DigitValue(c) ==
    CASE c = "0" -> 0 [] c = "1" -> 1 [] c = "2" -> 2 [] c = "3" -> 3
      [] c = "4" -> 4 [] c = "5" -> 5 [] c = "6" -> 6 [] c = "7" -> 7
      [] c = "8" -> 8 [] c = "9" -> 9 [] OTHER -> -1

DigitChar(n) ==
    CASE n = 0 -> "0" [] n = 1 -> "1" [] n = 2 -> "2" [] n = 3 -> "3"
      [] n = 4 -> "4" [] n = 5 -> "5" [] n = 6 -> "6" [] n = 7 -> "7"
      [] n = 8 -> "8" [] n = 9 -> "9"

\* String(n) of a natural number
RECURSIVE NumberToString(_)
NumberToString(n) ==
    IF n < 10 THEN <<DigitChar(n)>>
    ELSE NumberToString(n \div 10) \o <<DigitChar(n % 10)>>

\* s.padStart(3, '0')
RECURSIVE padStart3(_)
padStart3(s) == IF Len(s) >= 3 THEN s ELSE padStart3(<<"0">> \o s)

\* parseInt's NaN
NaN == -1

RECURSIVE ParseDigits(_, _)
ParseDigits(s, acc) ==
    IF s = <<>> \/ DigitValue(Head(s)) < 0 THEN acc
    ELSE ParseDigits(Tail(s), 10 * acc + DigitValue(Head(s)))

\* parseInt(s, 10) of a text without sign or leading blanks: the value of
\* its leading digits, NaN if it has none
parseInt(s) ==
    IF s = <<>> \/ DigitValue(Head(s)) < 0 THEN NaN ELSE ParseDigits(s, 0)

\* s.startsWith('GA')
startsWithGA(s) == Len(s) >= 2 /\ s[1] = "G" /\ s[2] = "A"

\* s.substring(2)
substring2(s) == SubSeq(s, 3, Len(s))

\* `GA${String(n).padStart(3, '0')}`
NumeroGasto(n) == <<"G", "A">> \o padStart3(NumberToString(n))

\* generateNextNumeroGasto(expenses): GA and the largest numeric suffix of
\* the given expenses plus one
generateNextNumeroGasto(expenses) ==
    LET numParts == { parseInt(substring2(expenses[k].numero_gasto)) :
                        k \in { j \in 1..Len(expenses) :
                                  /\ expenses[j].numero_gasto # NullNumero
                                  /\ startsWithGA(expenses[j].numero_gasto) } }
        larger == { n \in numParts : n # NaN /\ n > 0 }
        maxNumber == IF larger = {} THEN 0
                     ELSE CHOOSE m \in larger : \A n \in larger : n <= m
    IN  NumeroGasto(maxNumber + 1)

\* ------------------------------------------------------------ the query

\* query.eq(key, filters[key]) for every key whose value is not empty
Matches(row, f) == f.colaborador_id = "" \/ row.colaborador_id = f.colaborador_id

\* query.order('date', {ascending})
RECURSIVE OrderByDate(_, _)
OrderByDate(rows, ascending) ==
    IF rows = {} THEN <<>>
    ELSE LET first == CHOOSE r \in rows : \A q \in rows :
                         IF ascending THEN r.date <= q.date ELSE r.date >= q.date
         IN  <<first>> \o OrderByDate(rows \ {first}, ascending)

\* what the database answers to the query fetchData builds
Query(table, f, s) == OrderByDate({ r \in table : Matches(r, f) }, s.ascending)

\* -------------------------------------------------------- useSupabaseData

RequestsInFlight == Len(fetches) + Len(writes)

\* fetchData up to await query, in the render that holds filters f and sort s
fetchData(f, s) ==
    /\ hookLoading' = TRUE
    /\ hookError' = "null"
    /\ fetches' = Append(fetches, [filters |-> f, sort |-> s])

\* the database answers the query of fetch i, or refuses it
FetchDone(i, outcome) ==
    /\ IF outcome = "ok"
       THEN /\ expenseData' = Query(gastos, fetches[i].filters, fetches[i].sort)
            /\ sonner' = <<>>
            /\ UNCHANGED hookError
       ELSE /\ hookError' = "error.message"
            /\ sonner' = <<[kind |-> "error", title |-> "Error al cargar gastos"]>>
            /\ UNCHANGED expenseData
    /\ hookLoading' = FALSE
    /\ fetches' = Drop(fetches, i)
    /\ UNCHANGED <<gastos, nextId, filters, sort, writes, isDialogOpen,
                   editingExpense, numero_gasto, isConfirmDialogOpen,
                   dataToConfirm, isConfirmingSubmission>>

\* Expenses' filter effect calls setFilters, and the hook's effect runs the
\* new fetchData (no caller of setSort exists: sort stays initialSort)
setFilters(newFilters) ==
    /\ newFilters # filters
    /\ RequestsInFlight < MaxRequests
    /\ filters' = newFilters
    /\ fetchData(newFilters, sort)
    /\ sonner' = <<>>
    /\ UNCHANGED <<gastos, nextId, expenseData, sort, writes, isDialogOpen,
                   editingExpense, numero_gasto, isConfirmDialogOpen,
                   dataToConfirm, isConfirmingSubmission>>

\* addRecord: what the database does with the insert when it accepts it
Inserted(values) ==
    [id |-> nextId, numero_gasto |-> values.numero_gasto,
     colaborador_id |-> values.colaborador_id, date |-> nextId]

\* updateRecord: update(record).eq('id', id).select().single() answers an
\* error when no row has the id
WriteAccepted(w, outcome) ==
    /\ outcome = "ok"
    /\ w.kind = "update" => \E r \in gastos : r.id = w.id

Updated(r, values) ==
    [r EXCEPT !.numero_gasto = values.numero_gasto,
              !.colaborador_id = values.colaborador_id]

\* the table after the write of w
TableAfter(w) ==
    CASE w.kind = "add" -> gastos \cup {Inserted(w.values)}
      [] w.kind = "update" ->
            { IF r.id = w.id THEN Updated(r, w.values) ELSE r : r \in gastos }
      [] w.kind = "delete" -> { r \in gastos : r.id # w.id }

\* setData((prev) => ...) of addRecord, updateRecord and deleteRecord
DataAfter(w) ==
    CASE w.kind = "add" -> <<Inserted(w.values)>> \o expenseData
      [] w.kind = "update" ->
            [k \in 1..Len(expenseData) |->
                IF expenseData[k].id = w.id
                THEN Updated(CHOOSE r \in gastos : r.id = w.id, w.values)
                ELSE expenseData[k]]
      [] w.kind = "delete" ->
            SelectSeq(expenseData, LAMBDA r : r.id # w.id)

\* the toast of the hook for a write
HookToast(w, accepted) ==
    IF accepted
    THEN [kind |-> "success",
          title |-> CASE w.kind = "add" -> "gastos añadido correctamente."
                      [] w.kind = "update" -> "gastos actualizado correctamente."
                      [] w.kind = "delete" -> "gastos eliminado correctamente."]
    ELSE [kind |-> "error",
          title |-> CASE w.kind = "add" -> "Error al añadir gastos"
                      [] w.kind = "update" -> "Error al actualizar gastos"
                      [] w.kind = "delete" -> "Error al eliminar gastos"]

\* ------------------------------------------------------------- Expenses

\* toast.success(...) after await addRecord / updateRecord / deleteRecord:
\* the hook returns null or false on an error and does not throw
PageToasts(w, accepted) ==
    <<[kind |-> "success",
       title |-> CASE w.kind = "add" -> "Gasto añadido"
                   [] w.kind = "update" -> "Gasto actualizado"
                   [] w.kind = "delete" -> "Gasto eliminado"]>>

\* Expenses renders its controls, table and dialogs only if the hook is not
\* loading and holds no error
PageShown == ~hookLoading /\ hookError = "null"

\* the filter controls set colaboradorFilter and the effect calls setFilters
ChangeColaboradorFilter(colaborador) ==
    /\ PageShown
    /\ setFilters([colaborador_id |-> colaborador])

\* handleOpenDialog(expense?)
handleOpenDialog(expense) ==
    /\ PageShown
    /\ ~isDialogOpen
    /\ editingExpense' = expense
    /\ numero_gasto' = IF expense.some THEN expense.numero_gasto
                       ELSE generateNextNumeroGasto(expenseData)
    /\ isDialogOpen' = TRUE
    /\ sonner' = <<>>
    /\ UNCHANGED <<gastos, nextId, expenseData, hookLoading, hookError, filters,
                   sort, fetches, writes, isConfirmDialogOpen, dataToConfirm,
                   isConfirmingSubmission>>

\* handleCloseDialog, with handleCloseConfirmationOnly; form.reset() leaves
\* a field that is not read again before handleOpenDialog resets it
handleCloseDialog ==
    /\ PageShown
    /\ isDialogOpen
    /\ isDialogOpen' = FALSE
    /\ editingExpense' = NullExpense
    /\ isConfirmDialogOpen' = FALSE
    /\ dataToConfirm' = NullValues
    /\ isConfirmingSubmission' = FALSE
    /\ sonner' = <<>>
    /\ numero_gasto' = NullNumero
    /\ UNCHANGED <<gastos, nextId, expenseData, hookLoading, hookError, filters,
                   sort, fetches, writes>>

\* Expenses.onSubmit: the parsed values wait for the confirmation (an edit
\* keeps the expense's colaborador)
Expenses_onSubmit(colaborador) ==
    /\ PageShown
    /\ isDialogOpen
    /\ ~isConfirmDialogOpen
    /\ editingExpense.some => colaborador = editingExpense.colaborador_id
    /\ dataToConfirm' = SomeValues(numero_gasto, colaborador)
    /\ isConfirmDialogOpen' = TRUE
    /\ sonner' = <<>>
    /\ UNCHANGED <<gastos, nextId, expenseData, hookLoading, hookError, filters,
                   sort, fetches, writes, isDialogOpen, editingExpense,
                   numero_gasto, isConfirmingSubmission>>

\* handleConfirmSubmit up to await updateRecord / await addRecord; the
\* handler keeps the fetchData of its render and, where it reads it again,
\* the expenseData of its render
handleConfirmSubmit ==
    /\ PageShown
    /\ dataToConfirm.some
    /\ isConfirmDialogOpen
    /\ ~isConfirmingSubmission
    /\ RequestsInFlight < MaxRequests
    /\ editingExpense.some \/ nextId <= MaxId
    /\ isConfirmingSubmission' = TRUE
    /\ hookLoading' = TRUE
    /\ writes' = Append(writes,
           [kind |-> IF editingExpense.some THEN "update" ELSE "add",
            id |-> editingExpense.id,
            values |-> dataToConfirm,
            closureData |-> IF editingExpense.some THEN <<>> ELSE expenseData,
            closureFilters |-> filters,
            closureSort |-> sort])
    /\ sonner' = <<>>
    /\ UNCHANGED <<gastos, nextId, expenseData, hookError, filters, sort, fetches,
                   isDialogOpen, editingExpense, numero_gasto,
                   isConfirmDialogOpen, dataToConfirm>>

\* handleDelete(id) with the confirmation accepted, up to await deleteRecord
handleDelete(id) ==
    /\ PageShown
    /\ ~isDialogOpen
    /\ RequestsInFlight < MaxRequests
    /\ hookLoading' = TRUE
    /\ writes' = Append(writes,
           [kind |-> "delete", id |-> id, values |-> NullValues,
            closureData |-> <<>>, closureFilters |-> filters,
            closureSort |-> sort])
    /\ sonner' = <<>>
    /\ UNCHANGED <<gastos, nextId, expenseData, hookError, filters, sort, fetches,
                   isDialogOpen, editingExpense, numero_gasto,
                   isConfirmDialogOpen, dataToConfirm, isConfirmingSubmission>>

\* the number the form is reset to after await addRecord
NextNumeroAfterAdd(w, accepted) ==
    IF accepted /\ w.values.numero_gasto # NullNumero
    THEN LET numPart == parseInt(substring2(w.values.numero_gasto))
         IN  IF numPart # NaN THEN NumeroGasto(numPart + 1) ELSE NullNumero
    ELSE generateNextNumeroGasto(w.closureData)

\* the database answers the write of handler i, or refuses it; the hook
\* updates its cells and toasts, and the page's handler runs to its end
WriteDone(i, outcome) ==
    LET w == writes[i]
        accepted == WriteAccepted(w, outcome)
    IN  /\ w.kind \in {"add", "update", "delete"}
        /\ gastos' = IF accepted THEN TableAfter(w) ELSE gastos
        /\ nextId' = IF accepted /\ w.kind = "add" THEN nextId + 1 ELSE nextId
        /\ expenseData' = IF accepted THEN DataAfter(w) ELSE expenseData
        /\ writes' = Drop(writes, i)
        /\ sonner' = <<HookToast(w, accepted)>> \o PageToasts(w, accepted)
        /\ CASE w.kind = "update" ->
                  \* handleCloseDialog() and the finally
                  /\ hookLoading' = FALSE
                  /\ hookError' = IF accepted THEN hookError ELSE "error.message"
                  /\ isDialogOpen' = FALSE
                  /\ editingExpense' = NullExpense
                  /\ isConfirmDialogOpen' = FALSE
                  /\ dataToConfirm' = NullValues
                  /\ isConfirmingSubmission' = FALSE
                  /\ numero_gasto' = NullNumero
                  /\ UNCHANGED fetches
             [] w.kind = "add" ->
                  \* form.reset, handleCloseConfirmationOnly(), refreshData()
                  /\ numero_gasto' = NextNumeroAfterAdd(w, accepted)
                  /\ editingExpense' = NullExpense
                  /\ isConfirmDialogOpen' = FALSE
                  /\ dataToConfirm' = NullValues
                  /\ isConfirmingSubmission' = FALSE
                  /\ fetchData(w.closureFilters, w.closureSort)
                  /\ UNCHANGED isDialogOpen
             [] w.kind = "delete" ->
                  /\ hookLoading' = FALSE
                  /\ hookError' = IF accepted THEN hookError ELSE "error.message"
                  /\ UNCHANGED <<isDialogOpen, editingExpense, numero_gasto,
                                 isConfirmDialogOpen, dataToConfirm,
                                 isConfirmingSubmission, fetches>>
        /\ UNCHANGED <<filters, sort>>

\* ------------------------------------------------------ the page in use

\* the page over a database whose table gastos is one of Tables
InitData ==
    /\ SessionInit
    /\ session = null
    /\ user_roles = [a \in Actors |-> IF a = "u1" THEN <<RoleAdmin>> ELSE <<>>]
    /\ InvoiceInit
    /\ \E table \in Tables : DataInitOn(table)

NextData ==
    \/ /\ \E c \in Colaboradores \cup {""} : ChangeColaboradorFilter(c)
       /\ UNCHANGED <<sessionVars, invoiceVars>>
    \/ /\ \E i \in 1..Len(fetches) : \E o \in {"ok", "error"} : FetchDone(i, o)
       /\ UNCHANGED <<sessionVars, invoiceVars>>
    \/ handleOpenDialog(NullExpense) /\ UNCHANGED <<sessionVars, invoiceVars>>
    \/ /\ \E k \in 1..Len(expenseData) : handleOpenDialog(SomeExpense(expenseData[k]))
       /\ UNCHANGED <<sessionVars, invoiceVars>>
    \/ handleCloseDialog /\ UNCHANGED <<sessionVars, invoiceVars>>
    \/ /\ \E c \in Colaboradores : Expenses_onSubmit(c)
       /\ UNCHANGED <<sessionVars, invoiceVars>>
    \/ handleConfirmSubmit /\ UNCHANGED <<sessionVars, invoiceVars>>
    \/ /\ \E k \in 1..Len(expenseData) : handleDelete(expenseData[k].id)
       /\ UNCHANGED <<sessionVars, invoiceVars>>
    \/ /\ \E i \in 1..Len(writes) : \E o \in {"ok", "error"} : WriteDone(i, o)
       /\ UNCHANGED <<sessionVars, invoiceVars>>

SpecData == InitData /\ [][NextData]_vars

\* the hook with setFilters called directly, and the answers of the database
NextHook ==
    \/ /\ \E c \in Colaboradores \cup {""} : setFilters([colaborador_id |-> c])
       /\ UNCHANGED <<sessionVars, invoiceVars>>
    \/ /\ \E i \in 1..Len(fetches) : \E o \in {"ok", "error"} : FetchDone(i, o)
       /\ UNCHANGED <<sessionVars, invoiceVars>>

SpecHook == InitData /\ [][NextHook]_vars
\* C28: once every fetch has been answered and the hook holds no error, the
\* data it holds is the answer to the query for its current filters and
\* sort.
C28_LatestFiltersWin ==
    (fetches = <<>> /\ hookError = "null")
    => expenseData = Query(gastos, filters, sort)
\* C29: when the backend refuses the write of an add, update or delete, the
\* step in which the handler ends shows no success notification and leaves
\* the edit dialog as it was.
C29_SuccessOnlyIfSaved ==
    [][\A i \in 1..Len(writes) : \A o \in {"ok", "error"} :
          (WriteDone(i, o) /\ ~WriteAccepted(writes[i], o))
          => /\ \A k \in 1..Len(sonner') : sonner'[k].kind # "success"
             /\ isDialogOpen' = isDialogOpen]_vars

\* C30: the number proposed when the form is opened for a new expense is
\* the number of no expense stored in table gastos.
C30_ProposedNumberIsNew ==
    [][handleOpenDialog(NullExpense)
          => \A r \in gastos : r.numero_gasto # numero_gasto']_vars
====
